---- MODULE Spec2Model ----
(***************************************************************************)
(* Model of python/main_calculate_traj.py: the batch driver (__main__),    *)
(* calc_file_traj with its process pool, calculate_traj and                *)
(* save_traj_file, over an abstract file system.                           *)
(*                                                                         *)
(* Strings are sequences of fragments (a path is the concatenation of its  *)
(* fragments), a dict is a function.                                         *)
(***************************************************************************)
EXTENDS Integers, Sequences, FiniteSets, TLC

VARIABLES
    args,         \* parsed command line: scenario_name, track_file_number, all, recalculate
    pc,           \* position of the driver process
    file_number,  \* file_number of the running / last calc_file_traj call
    track_dict,   \* calc_file_traj local: the tracks loaded
    traj_file,    \* calc_file_traj local: the output path
    traj_dict,    \* calc_file_traj local: the result collection
    futures,      \* calc_file_traj local: one future per submitted unit
    files,        \* file system: path -> content, for the files that exist
    dirs,         \* file system: the directories that exist
    error,        \* the exception that ended the process ("" when none)
    invoked,      \* the file numbers calc_file_traj was called with, in order
    fs_ops,       \* number of file-system operations of this process
    save_calls,   \* save_traj_file calls of the running / last calc_file_traj call
    existed,      \* calc_file_traj: os.path.isfile(traj_file) as line 106 saw it
    overtaken,    \* a unit of the running / last call completed before one submitted earlier
    run           \* number of the driver process (1 = first run)

vars == <<args, pc, file_number, track_dict, traj_file, traj_dict, futures,
          files, dirs, error, invoked, fs_ops, save_calls, existed, overtaken, run>>

-----------------------------------------------------------------------------
(* Bounds *)

\* highest file index that may exist in the tracks directory
MaxFile == 2

\* number of driver processes run one after the other on the same file system
MaxRuns == 2

(* Program constants *)

\* ProcessPoolExecutor(10)
MaxWorkers == 10

\* str(file_number).zfill(3)
ZFillWidth == 3

\* fewest samples the fitter needs
MinFitPoints == 2

\* a missing scenario_name (argparse leaves None)
None == "None"

\* a missing track_file_number (argparse leaves None)
NoNumber == -1

-----------------------------------------------------------------------------
(* Strings and paths *)

Digit(d) == CASE d = 0 -> "0" [] d = 1 -> "1" [] d = 2 -> "2" [] d = 3 -> "3"
              [] d = 4 -> "4" [] d = 5 -> "5" [] d = 6 -> "6" [] d = 7 -> "7"
              [] d = 8 -> "8" [] d = 9 -> "9"

RECURSIVE str(_)
\* str(n) for n >= 0: the decimal digits, most significant first
str(n) == IF n < 10 THEN <<Digit(n)>> ELSE str(n \div 10) \o <<Digit(n % 10)>>

RECURSIVE zfill(_, _)
\* s.zfill(width): pad with "0" on the left up to width, never truncate
zfill(s, width) == IF Len(s) >= width THEN s ELSE zfill(<<"0">> \o s, width)

\* s.endswith(suffix)
endswith(s, suffix) ==
    /\ Len(s) >= Len(suffix)
    /\ SubSeq(s, Len(s) - Len(suffix) + 1, Len(s)) = suffix

pickle_ending == <<".pickle">>

get_track_file_path(fn, scenario_name) ==
    LET tracks_dir == <<"../recorded_trackfiles">>
        scenario_dir == tracks_dir \o <<"/", scenario_name>>
        track_file_prefix == <<"vehicle_tracks_">>
        track_file_ending == <<".csv">>
    IN scenario_dir \o <<"/">> \o track_file_prefix
           \o zfill(str(fn), ZFillWidth) \o track_file_ending

traj_dir == <<"../trajectory_files">>

traj_scenario_dir(scenario_name) == traj_dir \o <<"/", scenario_name>>

traj_file_name(fn, scenario_name) ==
    traj_scenario_dir(scenario_name) \o <<"/", "vehicle_tracks_">>
        \o zfill(str(fn), ZFillWidth) \o <<"_trajs">> \o pickle_ending

help_line == <<"Type --help for help.">>

\* get_traj_file_path raising at the first directory it does not find
get_traj_file_path_first(fn, scenario_name, ds) ==
    LET scenario_dir == traj_scenario_dir(scenario_name)
        error_string ==
            IF traj_dir \notin ds
            THEN <<"Did not find traj file directory ">> \o traj_dir \o <<"\n">>
            ELSE IF scenario_dir \notin ds
            THEN <<"Did not find scenario directory ">> \o scenario_dir \o <<"\n">>
            ELSE <<>>
    IN [err  |-> IF error_string # <<>> THEN error_string \o help_line ELSE <<>>,
        path |-> traj_file_name(fn, scenario_name)]

\* get_traj_file_path without the tests of the directories
get_traj_file_path_unchecked(fn, scenario_name, ds) ==
    [err |-> <<>>, path |-> traj_file_name(fn, scenario_name)]

\* get_traj_file_path: [err |-> error_string ("" when none), path |-> traj_file_name]
get_traj_file_path(fn, scenario_name, ds) ==
    LET scenario_dir == traj_scenario_dir(scenario_name)
        e1 == IF traj_dir \notin ds
              THEN <<"Did not find traj file directory ">> \o traj_dir \o <<"\n">>
              ELSE <<>>
        e2 == IF scenario_dir \notin ds
              THEN <<"Did not find scenario directory ">> \o scenario_dir \o <<"\n">>
              ELSE <<>>
        error_string == e1 \o e2
    IN [err  |-> IF error_string # <<>> THEN error_string \o help_line ELSE <<>>,
        path |-> traj_file_name(fn, scenario_name)]

\* os.path.isfile
isfile(fs, path) == path \in DOMAIN fs

\* dataset_reader.read_tracks: the track dictionary stored in the track file
read_tracks(fs, path) == fs[path].data

\* get_track_dict: [err |-> error_string, tracks |-> the track dictionary]
get_track_dict(fn, scenario_name, fs) ==
    LET track_file_name == get_track_file_path(fn, scenario_name)
        error_string == IF ~isfile(fs, track_file_name)
                        THEN <<"Did not find track file ">> \o track_file_name \o <<"\n">>
                        ELSE <<>>
    IN IF error_string # <<>>
       THEN [err |-> error_string \o help_line, tracks |-> <<>>]
       ELSE [err |-> <<>>, tracks |-> read_tracks(fs, track_file_name)]

-----------------------------------------------------------------------------
(* Tracks, the fitter and the worker *)

\* a motion state
MS(x, y) == [x |-> x, y |-> y]

\* a Track: its id and its motion states in iteration order
Track(id, ms) == [track_id |-> id, motion_states |-> ms]

\* the sample sequences the tracks of the model carry
NoSamples     == <<>>
OneSample     == <<MS(5, 5)>>
ArcSamples    == <<MS(0, 0), MS(1, 1), MS(2, 0)>>
SamePoint     == <<MS(1, 1), MS(1, 1)>>
LineSamples   == <<MS(0, 1), MS(3, 2)>>

\* the track dictionaries a track file may hold, keyed by track id as
\* read_tracks keys them
TrackDicts ==
    << (7 :> Track(7, ArcSamples)) @@ (8 :> Track(8, OneSample)),
       (1 :> Track(1, SamePoint)) @@ (2 :> Track(2, NoSamples)),
       (3 :> Track(3, LineSamples)),
       <<>> >>

\* bezier.bezier_points(xy_points): <<err, traj_bez>>; err < 0 when the points
\* are too few or all coincide, else the curve (here: its two end points)
bezier_points(xy_points) ==
    LET xs == xy_points[1]
        ys == xy_points[2]
        n  == Len(xs)
        coincident == \A i \in 1..n : xs[i] = xs[1] /\ ys[i] = ys[1]
    IN IF n < MinFitPoints \/ coincident
       THEN <<-1, <<>>>>
       ELSE <<0, << <<xs[1], ys[1]>>, <<xs[n], ys[n]>> >> >>

\* Traj(car): a new trajectory record for the track
Traj(car) == [track_id |-> car.track_id, traj_bez |-> <<>>, error |-> FALSE]

RECURSIVE collect_xy_prepend(_, _, _)
\* the loop putting every new value in front of the values collected
collect_xy_prepend(ms, k, xy_points) ==
    IF k > Len(ms) THEN xy_points
    ELSE collect_xy_prepend(ms, k + 1,
                    << <<ms[k].x>> \o xy_points[1], <<ms[k].y>> \o xy_points[2] >>)

RECURSIVE collect_xy(_, _, _)
\* the loop of calculate_traj: append x and y of every motion state from k on
collect_xy(ms, k, xy_points) ==
    IF k > Len(ms) THEN xy_points
    ELSE collect_xy(ms, k + 1,
                    <<Append(xy_points[1], ms[k].x), Append(xy_points[2], ms[k].y)>>)

\* calculate_traj with the test of the fitter's status left out
calculate_traj_noflag(car) ==
    LET xy_points == collect_xy(car.motion_states, 1, << <<>>, <<>> >>)
        fit       == bezier_points(xy_points)
    IN [Traj(car) EXCEPT !.traj_bez = fit[2]]

\* calculate_traj(car): the worker
calculate_traj(car) ==
    LET xy_points == collect_xy(car.motion_states, 1, << <<>>, <<>> >>)
        curr_traj == Traj(car)
        fit       == bezier_points(xy_points)
        err       == fit[1]
    IN [curr_traj EXCEPT !.traj_bez = fit[2],
                         !.error = IF err < 0 THEN TRUE ELSE @]

-----------------------------------------------------------------------------
(* Persistence *)

\* pickle.dump(traj_dict, handle, protocol=pickle.HIGHEST_PROTOCOL): the bytes of a
\* complete dump
pickle_dump(d) == [kind |-> "pickle", data |-> d]

\* what open(file_name, 'wb') followed by an interrupted dump leaves
truncated == [kind |-> "partial", data |-> <<>>]

\* d[k] = v
Put(d, k, v) == [x \in (DOMAIN d) \cup {k} |-> IF x = k THEN v ELSE d[x]]

NoError == [type |-> "", msg |-> <<>>]
IOError(msg) == [type |-> "IOError", msg |-> msg]
WorkerError == [type |-> "Exception", msg |-> <<"raised in calculate_traj">>]
WriteError == [type |-> "OSError", msg |-> <<"write failed">>]

\* save_traj_file(traj_dict, file_name): the files afterwards and the exception
\* raised; write_ok is whether the underlying write succeeds.  The suffix test
\* builds an IOError and drops it (there is no raise), so it changes nothing.
save_traj_file(fs, d, file_name, write_ok) ==
    LET unused == IF ~endswith(file_name, pickle_ending)
                  THEN IOError(<<"Error -- file name not a .pickle file in save_traj_file\n">>)
                  ELSE NoError
    IN IF write_ok
       THEN [files |-> Put(fs, file_name, pickle_dump(d)), raised |-> NoError]
       ELSE [files |-> Put(fs, file_name, truncated), raised |-> WriteError]

-----------------------------------------------------------------------------
(* The process pool *)

\* the result slot of a future that holds no result
NoTraj == [track_id |-> -1, traj_bez |-> <<>>, error |-> FALSE]

\* executor.submit(calculate_traj, car)
submit(car) == [car |-> car, state |-> "pending", exception |-> FALSE, result |-> NoTraj]

\* track_dict.values(), in key order
values(d) ==
    LET keys == DOMAIN d
        key(i) == CHOOSE k \in keys : Cardinality({y \in keys : y <= k}) = i
    IN [i \in 1..Cardinality(keys) |-> d[key(i)]]

\* [executor.submit(calculate_traj, car) for car in track_dict.values()]
submit_all(d) == LET cars == values(d) IN [i \in 1..Len(cars) |-> submit(cars[i])]

\* number of units executing
Running(futs) == Cardinality({i \in DOMAIN futs : futs[i].state = "running"})

\* a pool that starts a process for every unit submitted
WorkerAlwaysFree(futs) == TRUE

\* a pool whose workers do not come back after their first unit
WorkerNeverBack(futs) ==
    Cardinality({i \in DOMAIN futs : futs[i].state # "pending"}) < MaxWorkers

\* the call queue of the pool is first-in first-out: the unit a worker takes is
\* the pending unit submitted first
NextInQueue(futs, i) ==
    /\ futs[i].state = "pending"
    /\ \A j \in 1..(i - 1) : futs[j].state # "pending"

\* a worker of the pool is free
WorkerFree(futs) == Running(futs) < MaxWorkers

\* Completed with the units sharing one xy_points buffer: a unit that ends while
\* another is executing fits the other's points too, and its fit fails
CompletedShared(futs, i, crash) ==
    LET res   == calculate_traj(futs[i].car)
        other == \E j \in DOMAIN futs : j # i /\ futs[j].state = "running"
    IN [futs EXCEPT ![i] = [@ EXCEPT !.state = "done",
                                     !.exception = crash,
                                     !.result = IF crash THEN NoTraj
                                                ELSE IF other
                                                THEN [res EXCEPT !.error = TRUE,
                                                                 !.traj_bez = <<>>]
                                                ELSE res]]

\* Completed with the result written through a slot shared with the next future:
\* the unit's trajectory lands in the next future's result too
CompletedClobber(futs, i, crash) ==
    LET res == IF crash THEN NoTraj ELSE calculate_traj(futs[i].car)
    IN [j \in DOMAIN futs |->
          IF j = i THEN [futs[j] EXCEPT !.state = "done", !.exception = crash,
                                        !.result = res]
          ELSE IF j = i + 1 THEN [futs[j] EXCEPT !.result = res]
          ELSE futs[j]]

\* the unit of future i ends: with the value calculate_traj returns, or, when it
\* crashed, with the exception
Completed(futs, i, crash) ==
    [futs EXCEPT ![i] = [@ EXCEPT !.state = "done",
                                  !.exception = crash,
                                  !.result = IF crash THEN NoTraj
                                             ELSE calculate_traj(futs[i].car)]]

\* wait(futures, return_when=FIRST_COMPLETED): one future is done
AnyCompleted(futs) == futs = <<>> \/ \E i \in DOMAIN futs : futs[i].state = "done"

\* concurrent.futures.wait(futures) returns: every future is done
AllCompleted(futs) == \A i \in DOMAIN futs : futs[i].state = "done"

RECURSIVE AggregateDropFlagged(_, _, _)
\* the loop leaving out the trajectories whose fit failed
AggregateDropFlagged(futs, k, d) ==
    IF k > Len(futs) THEN [traj_dict |-> d, raised |-> NoError]
    ELSE IF futs[k].exception THEN [traj_dict |-> d, raised |-> WorkerError]
    ELSE LET traj_Obj == futs[k].result
         IN AggregateDropFlagged(futs, k + 1,
                IF traj_Obj.error THEN d ELSE Put(d, traj_Obj.track_id, traj_Obj))

RECURSIVE AggregateSkipRaised(_, _, _)
\* the loop catching the exception of fut.result() and going on
AggregateSkipRaised(futs, k, d) ==
    IF k > Len(futs) THEN [traj_dict |-> d, raised |-> NoError]
    ELSE IF futs[k].exception THEN AggregateSkipRaised(futs, k + 1, d)
    ELSE LET traj_Obj == futs[k].result
         IN AggregateSkipRaised(futs, k + 1, Put(d, traj_Obj.track_id, traj_Obj))

RECURSIVE Aggregate(_, _, _)
\* for fut in futures: traj_Obj = fut.result(); traj_dict[traj_Obj.track_id] = traj_Obj
\* from future k on; fut.result() raises the unit's exception and ends the loop
Aggregate(futs, k, d) ==
    IF k > Len(futs) THEN [traj_dict |-> d, raised |-> NoError]
    ELSE IF futs[k].exception THEN [traj_dict |-> d, raised |-> WorkerError]
    ELSE LET traj_Obj == futs[k].result
         IN Aggregate(futs, k + 1, Put(d, traj_Obj.track_id, traj_Obj))

\* the test of the output file left out
SkipNever(exists, recalculate) == FALSE

\* the recalculate flag ignored
SkipIfExists(exists, recalculate) == exists

\* if os.path.isfile(traj_file): if not recalculate: return
SkipCalculation(exists, recalculate) == exists /\ ~recalculate

-----------------------------------------------------------------------------
(* The driver *)

Scenarios == {None, "S"}
FileNumbers == 0..MaxFile

\* the usage checks without the check of --all given with a track number
UsageErrorTwoChecks(a) ==
    IF a.scenario_name = None
    THEN <<"You must specify a scenario. Type --help for help.">>
    ELSE IF ~a.all /\ a.track_file_number = NoNumber
    THEN <<"You must specify a track number or --all. Type --help for help">>
    ELSE <<>>

\* the usage checks of __main__: the message of the error raised, <<>> when none
UsageError(a) ==
    IF a.scenario_name = None
    THEN <<"You must specify a scenario. Type --help for help.">>
    ELSE IF ~a.all /\ a.track_file_number = NoNumber
    THEN <<"You must specify a track number or --all. Type --help for help">>
    ELSE IF a.all /\ a.track_file_number # NoNumber
    THEN <<"You cannot use -a/--all with a specific track number. Type --help for help">>
    ELSE <<>>

\* a loop that goes on over a gap, while a later track file exists
LoopOverGaps(fs, fn, scenario_name) ==
    \E m \in fn..(MaxFile + 1) : isfile(fs, get_track_file_path(m, scenario_name))

\* while os.path.isfile(track)
LoopContinues(fs, fn, scenario_name) == isfile(fs, get_track_file_path(fn, scenario_name))

ArgSets ==
    [scenario_name : Scenarios, track_file_number : {NoNumber} \cup FileNumbers,
     all : BOOLEAN, recalculate : BOOLEAN]

\* the track files of scenario "S": the indices in P exist, and index n holds
\* the track dictionary number n + shift (cyclically)
TrackFiles(P, shift) ==
    [p \in { get_track_file_path(n, "S") : n \in P } |->
        LET n == CHOOSE m \in P : get_track_file_path(m, "S") = p
        IN [kind |-> "tracks", data |-> TrackDicts[((n + shift) % Len(TrackDicts)) + 1]]]

TrackFileSystems ==
    { TrackFiles(P, shift) : P \in SUBSET FileNumbers, shift \in 0..(Len(TrackDicts) - 1) }

DirSets == { {}, {traj_dir}, {traj_dir, traj_scenario_dir("S")} }

Init ==
    /\ args \in ArgSets
    /\ files \in TrackFileSystems
    /\ dirs \in DirSets
    /\ pc = "main"
    /\ file_number = 0
    /\ track_dict = <<>>
    /\ traj_file = <<>>
    /\ traj_dict = <<>>
    /\ futures = <<>>
    /\ error = NoError
    /\ invoked = <<>>
    /\ fs_ops = 0
    /\ save_calls = 0
    /\ existed = FALSE
    /\ overtaken = FALSE
    /\ run = 1

\* __main__: the usage checks, then the choice of the mode
Main ==
    /\ pc = "main"
    /\ IF UsageError(args) # <<>>
       THEN /\ error' = IOError(UsageError(args))
            /\ pc' = "usage_error"
            /\ UNCHANGED file_number
       ELSE /\ error' = error
            /\ IF args.all
               THEN file_number' = 0 /\ pc' = "loop_test"
               ELSE file_number' = args.track_file_number /\ pc' = "call"
    /\ UNCHANGED <<args, track_dict, traj_file, traj_dict, futures, files, dirs,
                   invoked, fs_ops, save_calls, existed, overtaken, run>>

\* the loop test of a driver that catches the error of calc_file_traj and goes
\* on with the next index
LoopTestResume ==
    /\ \/ pc = "loop_test" /\ file_number' = file_number
       \/ pc = "error" /\ args.all /\ file_number' = file_number + 1
    /\ fs_ops' = fs_ops + 1
    /\ pc' = IF isfile(files, get_track_file_path(file_number', args.scenario_name))
             THEN "call" ELSE "done"
    /\ UNCHANGED <<args, track_dict, traj_file, traj_dict, futures, files,
                   dirs, error, invoked, save_calls, existed, overtaken, run>>

\* all-files mode: the loop test
LoopTest ==
    /\ pc = "loop_test"
    /\ fs_ops' = fs_ops + 1
    /\ pc' = IF LoopContinues(files, file_number, args.scenario_name) THEN "call" ELSE "done"
    /\ UNCHANGED <<args, file_number, track_dict, traj_file, traj_dict, futures, files,
                   dirs, error, invoked, save_calls, existed, overtaken, run>>

\* where calc_file_traj returns to
AfterReturn ==
    IF args.all
    THEN file_number' = file_number + 1 /\ pc' = "loop_test"
    ELSE file_number' = file_number /\ pc' = "done"

\* calc_file_traj up to the submission of the units (lines 101-114)
CalcFileTraj ==
    /\ pc = "call"
    /\ invoked' = Append(invoked, file_number)
    /\ save_calls' = 0
    /\ traj_dict' = <<>>
    /\ overtaken' = FALSE
    /\ LET td == get_track_dict(file_number, args.scenario_name, files)
           tf == get_traj_file_path(file_number, args.scenario_name, dirs)
       IN IF td.err # <<>>
          THEN /\ error' = IOError(td.err)
               /\ pc' = "error"
               /\ fs_ops' = fs_ops + 1
               /\ track_dict' = <<>>
               /\ traj_file' = <<>>
               /\ futures' = <<>>
               /\ existed' = FALSE
               /\ file_number' = file_number
          ELSE IF tf.err # <<>>
          THEN /\ error' = IOError(tf.err)
               /\ pc' = "error"
               /\ fs_ops' = fs_ops + 4
               /\ track_dict' = td.tracks
               /\ traj_file' = <<>>
               /\ futures' = <<>>
               /\ existed' = FALSE
               /\ file_number' = file_number
          ELSE /\ track_dict' = td.tracks
               /\ traj_file' = tf.path
               /\ fs_ops' = fs_ops + 5
               /\ error' = error
               /\ existed' = isfile(files, tf.path)
               /\ IF SkipCalculation(isfile(files, tf.path), args.recalculate)
                  THEN /\ futures' = <<>>
                       /\ AfterReturn
                  ELSE /\ futures' = submit_all(td.tracks)
                       /\ pc' = "wait"
                       /\ file_number' = file_number
    /\ UNCHANGED <<args, files, dirs, run>>

\* a worker process takes a pending unit
UnitStart(i) ==
    /\ pc = "wait"
    /\ futures[i].state = "pending"
    /\ WorkerFree(futures)
    /\ futures' = [futures EXCEPT ![i].state = "running"]
    /\ UNCHANGED <<args, pc, file_number, track_dict, traj_file, traj_dict, files, dirs,
                   error, invoked, fs_ops, save_calls, existed, overtaken, run>>

\* a unit ends, with a result or with an unexpected exception
UnitFinish(i) ==
    /\ pc = "wait"
    /\ futures[i].state = "running"
    /\ \E crash \in BOOLEAN : futures' = Completed(futures, i, crash)
    /\ overtaken' = (overtaken \/ \E j \in 1..(i - 1) : futures[j].state # "done")
    /\ UNCHANGED <<args, pc, file_number, track_dict, traj_file, traj_dict, files, dirs,
                   error, invoked, fs_ops, save_calls, existed, run>>

\* calc_file_traj from the barrier on (lines 115-125): wait, collect, save
CalcFileTrajFinish ==
    /\ pc = "wait"
    /\ AllCompleted(futures)
    /\ LET agg == Aggregate(futures, 1, traj_dict)
       IN /\ traj_dict' = agg.traj_dict
          /\ IF agg.raised # NoError
             THEN /\ error' = agg.raised
                  /\ pc' = "error"
                  /\ UNCHANGED <<files, fs_ops, save_calls, file_number>>
             ELSE \E write_ok \in BOOLEAN :
                    LET saved == save_traj_file(files, agg.traj_dict, traj_file, write_ok)
                    IN /\ files' = saved.files
                       /\ fs_ops' = fs_ops + 1
                       /\ save_calls' = save_calls + 1
                       /\ error' = saved.raised
                       /\ IF saved.raised # NoError
                          THEN pc' = "error" /\ file_number' = file_number
                          ELSE AfterReturn
    /\ UNCHANGED <<args, track_dict, traj_file, futures, dirs, invoked, existed,
                   overtaken, run>>

\* the driver is started again on the file system the last run left
Rerun ==
    /\ pc \in {"done", "error", "usage_error"}
    /\ run < MaxRuns
    /\ run' = run + 1
    /\ args' \in ArgSets
    /\ pc' = "main"
    /\ file_number' = 0
    /\ track_dict' = <<>>
    /\ traj_file' = <<>>
    /\ traj_dict' = <<>>
    /\ futures' = <<>>
    /\ error' = NoError
    /\ invoked' = <<>>
    /\ fs_ops' = 0
    /\ save_calls' = 0
    /\ existed' = FALSE
    /\ overtaken' = FALSE
    /\ UNCHANGED <<files, dirs>>

Next ==
    \/ Main
    \/ LoopTest
    \/ CalcFileTraj
    \/ \E i \in DOMAIN futures : UnitStart(i)
    \/ \E i \in DOMAIN futures : UnitFinish(i)
    \/ CalcFileTrajFinish
    \/ Rerun

Spec == Init /\ [][Next]_vars

-----------------------------------------------------------------------------
(* save_traj_file called on its own, with any collection and any file name *)

\* the file names save_traj_file is called with
SaveNames ==
    { <<"out", ".pickle">>, <<"out", ".txt">>, <<"out", ".pickle", ".bak">>,
      <<"out">>, traj_file_name(0, "S") }

\* the collections save_traj_file is called with: what the track dictionaries yield
SaveDicts ==
    { [id \in DOMAIN TrackDicts[n] |-> calculate_traj(TrackDicts[n][id])]
      : n \in 1..Len(TrackDicts) }

InitSave ==
    /\ traj_file \in SaveNames
    /\ traj_dict \in SaveDicts
    /\ files \in { <<>>, traj_file :> truncated }
                 \cup { traj_file :> pickle_dump(d) : d \in SaveDicts }
    /\ dirs = {traj_dir, traj_scenario_dir("S")}
    /\ pc = "save"
    /\ args = [scenario_name |-> "S", track_file_number |-> 0, all |-> FALSE,
               recalculate |-> FALSE]
    /\ file_number = 0
    /\ track_dict = <<>>
    /\ futures = <<>>
    /\ error = NoError
    /\ invoked = <<>>
    /\ fs_ops = 0
    /\ save_calls = 0
    /\ existed = FALSE
    /\ overtaken = FALSE
    /\ run = 1

\* save_traj_file(traj_dict, traj_file)
SaveTrajFile ==
    /\ pc = "save"
    /\ \E write_ok \in BOOLEAN :
         LET saved == save_traj_file(files, traj_dict, traj_file, write_ok)
         IN /\ files' = saved.files
            /\ error' = saved.raised
            /\ pc' = IF saved.raised # NoError THEN "error" ELSE "done"
    /\ save_calls' = save_calls + 1
    /\ fs_ops' = fs_ops + 1
    /\ UNCHANGED <<args, file_number, track_dict, traj_file, traj_dict, futures, dirs,
                   invoked, existed, overtaken, run>>

NextSave == SaveTrajFile

SpecSave == InitSave /\ [][NextSave]_vars

-----------------------------------------------------------------------------
(* One file with more tracks than the pool has workers *)

\* the number of tracks of the file: one more than the pool has workers
PoolTracks == MaxWorkers + 1

\* its tracks: every second one has a single sample
PoolTrackDict ==
    [id \in 1..PoolTracks |->
        Track(id, IF id % 2 = 1 THEN LineSamples ELSE OneSample)]

\* the units of the file that can raise: the first, and the one that has to
\* wait for a worker
PoolRaising == {1, PoolTracks}

\* the workers take the units in the order of the call queue
UnitStartPool(i) == NextInQueue(futures, i) /\ UnitStart(i)

UnitFinishPool(i) == UnitFinish(i) /\ (futures'[i].exception => i \in PoolRaising)

InitPool ==
    /\ args = [scenario_name |-> "S", track_file_number |-> 0, all |-> FALSE,
               recalculate |-> FALSE]
    /\ files = (get_track_file_path(0, "S") :> [kind |-> "tracks", data |-> PoolTrackDict])
    /\ dirs = {traj_dir, traj_scenario_dir("S")}
    /\ pc = "main"
    /\ file_number = 0
    /\ track_dict = <<>>
    /\ traj_file = <<>>
    /\ traj_dict = <<>>
    /\ futures = <<>>
    /\ error = NoError
    /\ invoked = <<>>
    /\ fs_ops = 0
    /\ save_calls = 0
    /\ existed = FALSE
    /\ overtaken = FALSE
    /\ run = 1

NextPool ==
    \/ Main
    \/ CalcFileTraj
    \/ \E i \in DOMAIN futures : UnitStartPool(i)
    \/ \E i \in DOMAIN futures : UnitFinishPool(i)
    \/ CalcFileTrajFinish

SpecPool == InitPool /\ [][NextPool]_vars

\* every unit terminates, the workers and the coordinating process are scheduled
FairSpecPool ==
    /\ SpecPool
    /\ WF_vars(Main)
    /\ WF_vars(CalcFileTraj)
    /\ WF_vars(\E i \in DOMAIN futures : UnitStartPool(i))
    /\ WF_vars(\E i \in DOMAIN futures : UnitFinishPool(i))
    /\ WF_vars(CalcFileTrajFinish)

-----------------------------------------------------------------------------
(* State predicates used by the properties *)

\* the call of calc_file_traj whose locals the state holds went through the barrier
PastBarrier == pc # "wait" /\ futures # <<>>

\* track file n of scenario "S" exists
Present(n) == get_track_file_path(n, "S") \in DOMAIN files

\* the fitter's status for a track
FitStatus(car) == bezier_points(collect_xy(car.motion_states, 1, << <<>>, <<>> >>))[1]

-----------------------------------------------------------------------------
(* C1..C10 *)

\* C1: when calc_file_traj has called save_traj_file, the collection it saved has
\* exactly one entry per input track: its keys are the identifiers of the input
\* tracks, no more and no fewer, every entry is the trajectory of its key, and a
\* successful write left that collection in the output file.
C1_OneTrajectoryPerTrack ==
    save_calls > 0 =>
        /\ DOMAIN traj_dict = { track_dict[k].track_id : k \in DOMAIN track_dict }
        /\ Cardinality(DOMAIN traj_dict) = Cardinality(DOMAIN track_dict)
        /\ \A id \in DOMAIN traj_dict : traj_dict[id].track_id = id
        /\ (error = NoError =>
              DOMAIN files[traj_file].data = DOMAIN track_dict)

\* a collection of two tracks, one of them with a failed fit, was saved
C1_Witness ==
    /\ save_calls = 1
    /\ error = NoError
    /\ DOMAIN track_dict = {7, 8}
    /\ DOMAIN files[traj_file].data = {7, 8}
    /\ traj_dict[8].error

\* C2: the collection calc_file_traj assembles is a function of the input tracks
\* alone: whatever the order in which the units started and completed, it holds
\* for every input track the trajectory calculate_traj yields for that track.
C2_OrderIndependent ==
    save_calls > 0 =>
        traj_dict = [id \in DOMAIN track_dict |-> calculate_traj(track_dict[id])]

\* the collection was saved after the second unit completed before the first
C2_Witness ==
    /\ save_calls = 1
    /\ error = NoError
    /\ Len(futures) = 2
    /\ overtaken
    /\ files[traj_file] = pickle_dump(traj_dict)

\* C3: the output file is written at most once per call, only after every unit of
\* the batch is done, and only by the step of the coordinating process that
\* follows the barrier; no step of a unit changes a file.
C3_WriteAfterBarrier ==
    /\ [](save_calls <= 1)
    /\ [][files' # files =>
            /\ pc = "wait"
            /\ \A i \in DOMAIN futures : futures[i].state = "done"
            /\ futures' = futures
            /\ save_calls' = save_calls + 1
            /\ save_calls = 0]_vars

\* the output of a batch of two units was written, both units done
C3_Witness ==
    /\ save_calls = 1
    /\ Len(futures) = 2
    /\ \A i \in DOMAIN futures : futures[i].state = "done"
    /\ traj_file \in DOMAIN files
    /\ files[traj_file].kind = "pickle"

\* C4: when the output file exists and recalculate is false, calc_file_traj
\* returns at once: it submits no unit, does not call save_traj_file and changes
\* no file, so a second run without recalculate leaves the first run's output.
C4_SkipLeavesOutput ==
    [][ ( /\ pc = "call"
          /\ Present(file_number)
          /\ traj_file_name(file_number, "S") \in DOMAIN files
          /\ ~args.recalculate )
        => ( /\ futures' = <<>>
             /\ save_calls' = 0
             /\ files' = files
             /\ error' = NoError
             /\ pc' = IF args.all THEN "loop_test" ELSE "done" ) ]_vars

\* the second run, without recalculate, found the complete output of the first
\* run and returned without submitting or saving
C4_Witness ==
    /\ run = 2
    /\ pc = "done"
    /\ ~args.all
    /\ ~args.recalculate
    /\ existed
    /\ invoked = <<file_number>>
    /\ futures = <<>>
    /\ save_calls = 0
    /\ files[traj_file].kind = "pickle"
    /\ DOMAIN files[traj_file].data = {7, 8}

\* C5: when recalculate is true or the output file does not exist (and the paths
\* resolve), calc_file_traj submits one unit per track of the input file, and
\* when it then returns normally the output file holds the newly assembled
\* collection, one trajectory per track, whatever the file held before.
C5_RecalculateOverwrites ==
    [][ /\ ( ( /\ pc = "call"
               /\ Present(file_number)
               /\ dirs = {traj_dir, traj_scenario_dir("S")}
               /\ (args.recalculate \/ traj_file_name(file_number, "S") \notin DOMAIN files) )
             => ( /\ pc' = "wait"
                  /\ Len(futures') = Cardinality(DOMAIN track_dict')
                  /\ track_dict' = files[get_track_file_path(file_number, "S")].data
                  /\ \A id \in DOMAIN track_dict' :
                        \E i \in DOMAIN futures' :
                            /\ futures'[i].car = track_dict'[id]
                            /\ futures'[i].state = "pending" ) )
        /\ ( pc = "wait" /\ pc' \in {"loop_test", "done"}
             => ( /\ files'[traj_file] = pickle_dump(traj_dict')
                  /\ DOMAIN traj_dict' = DOMAIN track_dict
                  /\ \A id \in DOMAIN track_dict :
                        traj_dict'[id].track_id = id ) ) ]_vars

\* with recalculate, an output file that existed was written again with the
\* collection just computed
C5_Witness ==
    /\ args.recalculate
    /\ existed
    /\ save_calls = 1
    /\ error = NoError
    /\ Len(futures) = 2
    /\ files[traj_file] = pickle_dump(traj_dict)

\* the first index whose track file is missing
FirstMissing == CHOOSE k \in 0..(MaxFile + 1) :
                    /\ ~Present(k)
                    /\ \A n \in 0..(k - 1) : Present(n)

\* C6: in all-files mode calc_file_traj is called for 0, 1, 2, ... in this order,
\* only for indices below the first missing one (never for the missing index or
\* a later one, whatever files exist above it), and when the run ends without an
\* error it has been called for every index below the first missing one.
C6_ContiguousRun ==
    args.all /\ pc \notin {"main", "usage_error"} =>
        /\ \A i \in DOMAIN invoked : invoked[i] = i - 1
        /\ Len(invoked) <= FirstMissing
        /\ (pc = "done" => Len(invoked) = FirstMissing)
        /\ (pc = "loop_test" => file_number = Len(invoked))

\* files 0 and 2 exist and file 1 does not: the run ended having processed 0 only
C6_Witness ==
    /\ args.all
    /\ pc = "done"
    /\ Present(0) /\ ~Present(1) /\ Present(2)
    /\ invoked = <<0>>

\* the arguments the usage checks reject
InvalidUsage(a) ==
    \/ a.scenario_name = None
    \/ (a.track_file_number = NoNumber /\ ~a.all)
    \/ (a.track_file_number # NoNumber /\ a.all)

\* C7: with a missing scenario, with neither a file index nor --all, or with
\* both, the driver ends with an error before any file-system operation, any
\* call of calc_file_traj and any submission; it goes past the usage checks only
\* with a scenario and exactly one of (file index, --all).
C7_UsageFirst ==
    /\ (InvalidUsage(args) =>
          /\ pc \in {"main", "usage_error"}
          /\ fs_ops = 0
          /\ invoked = <<>>
          /\ futures = <<>>
          /\ save_calls = 0)
    /\ (pc = "usage_error" => InvalidUsage(args) /\ error.type = "IOError")
    /\ (pc = "main" => fs_ops = 0 /\ invoked = <<>> /\ futures = <<>>)

\* --all given together with a file index whose track file exists: usage error
C7_Witness ==
    /\ pc = "usage_error"
    /\ args.scenario_name = "S"
    /\ args.all
    /\ args.track_file_number = 0
    /\ Present(0)
    /\ fs_ops = 0

\* C8: save_traj_file called with a file name that does not end in .pickle raises
\* an I/O error and leaves the files as they were.
C8_RejectsOtherSuffix ==
    [][ pc = "save" /\ ~endswith(traj_file, <<".pickle">>)
        => error'.type = "IOError" /\ files' = files ]_vars

\* C9: when no unit raised, calc_file_traj raises nothing of its own: every track
\* is in the collection, the tracks whose fit status is negative carry the
\* failure flag (and only they), save_traj_file was called, and barring a failed
\* write the collection is in the output file.
C9_FitFailureIsAFlag ==
    ( /\ PastBarrier
      /\ \A i \in DOMAIN futures : futures[i].state = "done" /\ ~futures[i].exception )
    => /\ error \in {NoError, WriteError}
       /\ save_calls = 1
       /\ \A id \in DOMAIN track_dict :
            /\ id \in DOMAIN traj_dict
            /\ traj_dict[id].error = (FitStatus(track_dict[id]) < 0)
       /\ (error = NoError => files[traj_file] = pickle_dump(traj_dict))

\* the fit of both tracks of a file failed, and the collection was saved
C9_Witness ==
    /\ PastBarrier
    /\ error = NoError
    /\ save_calls = 1
    /\ DOMAIN track_dict = {1, 2}
    /\ \A id \in DOMAIN track_dict : FitStatus(track_dict[id]) < 0
    /\ traj_dict[1].error /\ traj_dict[2].error
    /\ files[traj_file] = pickle_dump(traj_dict)

\* C10: when a unit ended with an exception, calc_file_traj ends with that
\* exception: save_traj_file is not called, no file is created or changed, the
\* run does not go on to another index, and a unit that is done is never
\* submitted or run again.
C10_WorkerFailureIsFatal ==
    [][ /\ ( pc = "wait" /\ pc' # "wait" /\ (\E i \in DOMAIN futures : futures[i].exception)
             => /\ pc' = "error"
                /\ error' = WorkerError
                /\ files' = files
                /\ save_calls' = 0
                /\ invoked' = invoked
                /\ futures' = futures )
        /\ ( pc = "wait" /\ pc' = "wait"
             => /\ Len(futures') = Len(futures)
                /\ \A i \in DOMAIN futures :
                      /\ futures'[i].car = futures[i].car
                      /\ (futures[i].state = "done" => futures'[i] = futures[i])
                      /\ (futures[i].state = "running" => futures'[i].state # "pending") )
        /\ ( error.type = "Exception" /\ run' = run => UNCHANGED vars ) ]_vars

\* one unit raised and the other returned a trajectory: the call ended with the
\* exception and there is no output file
C10_Witness ==
    /\ pc = "error"
    /\ error = WorkerError
    /\ Len(futures) = 2
    /\ futures[1].exception
    /\ futures[2].state = "done" /\ ~futures[2].exception
    /\ save_calls = 0
    /\ traj_file \notin DOMAIN files

-----------------------------------------------------------------------------
(* C11..C19 *)

\* the string s holds the string t (as consecutive fragments)
Names(s, t) == \E k \in 0..(Len(s) - Len(t)) : SubSeq(s, k + 1, k + Len(t)) = t

\* calc_file_traj ended with a path-resolution error
PathError == pc = "error" /\ error.type = "IOError"

\* the expected paths of the current index that are missing
MissingTrackFile == IF Present(file_number)
                    THEN {} ELSE {get_track_file_path(file_number, "S")}
MissingDirs == {traj_dir, traj_scenario_dir("S")} \ dirs

C12_WriteAllOrNothing ==
    [][ pc = "wait" /\ error'.type = "OSError" => files' = files ]_vars

\* C15: a step of a unit changes one future only, its own: it leaves the track
\* dictionary, the result collection, every file and every other future as they
\* are, keeps its own track, and its result is the trajectory of its own track
\* whatever the other units are doing; the result collection changes only in
\* steps of the coordinating process, at the start of a call and after the barrier.
C15_UnitsAreIsolated ==
    [][ /\ ( pc = "wait" /\ pc' = "wait" =>
               /\ track_dict' = track_dict
               /\ traj_dict' = traj_dict
               /\ files' = files
               /\ \A i \in DOMAIN futures : futures'[i].car = futures[i].car
               /\ Cardinality({ i \in DOMAIN futures : futures'[i] # futures[i] }) <= 1
               /\ \A i \in DOMAIN futures :
                     futures'[i].state = "done" /\ ~futures'[i].exception =>
                        /\ futures'[i].result.track_id = futures[i].car.track_id
                        /\ futures'[i].result.error = (FitStatus(futures[i].car) < 0) )
        /\ ( traj_dict' # traj_dict =>
               \/ pc = "call"
               \/ pc = "wait" /\ pc' # "wait"
                     /\ \A i \in DOMAIN futures : futures[i].state = "done"
               \/ run' # run ) ]_vars

\* one unit is done with its trajectory while the other is executing, and the
\* result collection is still empty
C15_Witness ==
    /\ pc = "wait"
    /\ Len(futures) = 2
    /\ futures[2].state = "done" /\ futures[2].result.track_id = 8
    /\ futures[1].state = "running" /\ futures[1].result = NoTraj
    /\ futures[1].car = track_dict[7]
    /\ traj_dict = <<>>

\* the x values and the y values of a track, in the order of its motion states
XValues(car) == [k \in 1..Len(car.motion_states) |-> car.motion_states[k].x]
YValues(car) == [k \in 1..Len(car.motion_states) |-> car.motion_states[k].y]

\* C16: the trajectory a unit returns is built from the fit of the track's x
\* values and y values in the order of its motion states (two sequences with one
\* element per sample, also for tracks with no or one sample): it carries the
\* track's identifier, the fitter's curve for these sequences, and the failure
\* flag exactly when the fitter's status for them is negative.
C16_WorkerContract ==
    \A i \in DOMAIN futures :
        futures[i].state = "done" /\ ~futures[i].exception =>
            LET car == futures[i].car
                fit == bezier_points(<<XValues(car), YValues(car)>>)
            IN /\ collect_xy(car.motion_states, 1, << <<>>, <<>> >>)
                     = <<XValues(car), YValues(car)>>
               /\ futures[i].result.track_id = car.track_id
               /\ futures[i].result.traj_bez = fit[2]
               /\ futures[i].result.error = (fit[1] < 0)

\* a track without samples and a track of two equal points both came back
\* flagged, and a track of three samples came back with its curve, unflagged
C16_Witness ==
    /\ \E i \in DOMAIN futures :
          /\ futures[i].state = "done" /\ ~futures[i].exception
          /\ futures[i].car.motion_states = <<>>
          /\ futures[i].result.error
    /\ \E f \in { files[p].data : p \in { q \in DOMAIN files : files[q].kind = "pickle" } } :
          /\ 7 \in DOMAIN f
          /\ ~f[7].error
          /\ f[7].traj_bez = << <<0, 0>>, <<2, 0>> >>

\* C17: when the track file, the trajectory root directory or the per-scenario
\* output directory of the index is missing, calc_file_traj raises an IOError
\* at once: no unit is submitted, save_traj_file is not called, and no file or
\* directory is created or changed.
C17_PathErrorBeforeWork ==
    [][ ( /\ pc = "call"
          /\ \/ ~Present(file_number)
             \/ traj_dir \notin dirs
             \/ traj_scenario_dir("S") \notin dirs )
        => ( /\ pc' = "error"
             /\ error'.type = "IOError"
             /\ futures' = <<>>
             /\ save_calls' = 0
             /\ traj_dict' = <<>>
             /\ files' = files
             /\ dirs' = dirs ) ]_vars

\* the track file exists with two tracks, the per-scenario output directory is
\* missing: the call ended with the error, nothing submitted, no output file
C17_Witness ==
    /\ PathError
    /\ Present(file_number)
    /\ Cardinality(DOMAIN track_dict) = 2
    /\ dirs = {traj_dir}
    /\ futures = <<>>
    /\ save_calls = 0
    /\ traj_file_name(file_number, "S") \notin DOMAIN files

\* the output files of the indices below k
OutputsBelow(fs, k) ==
    [p \in { traj_file_name(n, "S") : n \in 0..(k - 1) } \cap DOMAIN fs |-> fs[p]]

\* C18: in all-files mode an error raised in calc_file_traj for index k ends the
\* run: the step that raises leaves the output files of the indices below k as
\* they are, and afterwards the process takes no step (calc_file_traj is called
\* for no further index and no file changes) until the driver is started again.
C18_ErrorEndsRun ==
    [][ /\ ( args.all /\ pc # "error" /\ pc' = "error" =>
               /\ OutputsBelow(files', file_number) = OutputsBelow(files, file_number)
               /\ invoked'[Len(invoked')] = file_number
               /\ file_number' = file_number )
        /\ ( pc = "error" /\ run' = run =>
               invoked' = invoked /\ files' = files /\ pc' = "error" ) ]_vars

\* index 1 failed on a unit's exception after index 0 was written; index 2
\* exists and was not processed
C18_Witness ==
    /\ args.all
    /\ pc = "error"
    /\ error = WorkerError
    /\ invoked = <<0, 1>>
    /\ Present(2)
    /\ traj_file_name(0, "S") \in DOMAIN files
    /\ files[traj_file_name(0, "S")].kind = "pickle"
    /\ traj_file_name(1, "S") \notin DOMAIN files
    /\ traj_file_name(2, "S") \notin DOMAIN files

\* calc_file_traj returned at line 109: the output file existed and recalculate
\* was false
Skipped ==
    /\ pc \in {"loop_test", "done"}
    /\ invoked # <<>>
    /\ existed
    /\ ~args.recalculate
    /\ save_calls = 0

\* C19: whenever calc_file_traj skips an index because its output file exists,
\* that file holds a complete collection with exactly one entry per track of
\* the index's track file (so no failed run makes a later run skip an index
\* whose output is empty or partial).
C19_SkippedOutputIsComplete ==
    Skipped =>
        /\ files[traj_file].kind = "pickle"
        /\ DOMAIN files[traj_file].data = DOMAIN track_dict

\* the units executing
Executing == { i \in DOMAIN futures : futures[i].state = "running" }

\* C13: at most 10 units execute at any time, also for a file with more tracks
\* than workers; while 10 execute, no pending unit can start.
C13_BoundedParallelism ==
    /\ Cardinality(Executing) <= MaxWorkers
    /\ (Cardinality(Executing) = MaxWorkers =>
          ~ENABLED (\E i \in DOMAIN futures : UnitStart(i)))

\* ten units of the eleven execute and the eleventh is pending
C13_Witness ==
    /\ pc = "wait"
    /\ Len(futures) = MaxWorkers + 1
    /\ Cardinality(Executing) = MaxWorkers
    /\ futures[MaxWorkers + 1].state = "pending"

\* C14: with more tracks than workers, and whether or not a unit raised, every
\* unit submitted ends up done and calc_file_traj ends: it returns with the
\* collection saved, or it raises the exception of a unit (or of a failed write).
C14_EveryUnitCompletes ==
    <>[]( /\ pc \in {"done", "error"}
          /\ Len(futures) = PoolTracks
          /\ \A i \in DOMAIN futures : futures[i].state = "done"
          /\ (pc = "done" => /\ \A i \in DOMAIN futures : ~futures[i].exception
                             /\ files[traj_file] = pickle_dump(traj_dict)
                             /\ DOMAIN traj_dict = 1..PoolTracks)
          /\ (pc = "error" => \/ error = WriteError
                              \/ /\ error = WorkerError
                                 /\ \E i \in DOMAIN futures : futures[i].exception) )

\* the first unit raised, the ten others and the eleventh, which had to wait for
\* a worker, ran to their end all the same, and the call ended with the exception
C14_Witness ==
    /\ pc = "error"
    /\ error = WorkerError
    /\ Len(futures) = PoolTracks
    /\ futures[1].exception
    /\ \A i \in DOMAIN futures : futures[i].state = "done"
    /\ ~futures[PoolTracks].exception
    /\ futures[PoolTracks].result.track_id = PoolTracks

====
